---------------------------- MODULE Spec2Model ----------------------------
(***************************************************************************)
(* Model of the nvidia-smi exporter (src/src/main.rs).                     *)
(*                                                                         *)
(* A Rust string is a sequence of tokens; a token is a TLA+ string that is *)
(* a single white-space character, a single delimiter ("," or "\n"), the   *)
(* invalid byte, or a run of other characters.  Flat(s) is the text of s.  *)
(* The standard output of the tool is such a sequence; the CSV reader      *)
(* splits it at "\n" and "," as csv::Reader does with has_headers(false)   *)
(* and its other settings at their defaults (flexible = false, no          *)
(* trimming, empty lines skipped).  The outputs of the model hold no quote *)
(* character.                                                              *)
(*                                                                         *)
(* A handler is a frame with a pc: idle, command, records, match, done.    *)
(* An unwrap on None panics the handler's task: the frame ends at pc       *)
(* "panicked" and no response is sent.                                     *)
(***************************************************************************)
EXTENDS Naturals, Sequences, FiniteSets, TLC

\* Rows of one tool output.
MaxRows == 2
\* Fields a row may carry beyond the 13 queried columns.
MaxExtra == 1
\* Changes of the process-wide registry during a run.
MaxRegistry == 1
\* Requests in flight in the concurrent specification.
MaxConc == 2

VARIABLES
    reqs,          \* request id -> the handler's frame (pc and locals)
    registry,      \* the default prometheus registry (one gauge's value)
    invocations,   \* how many times Command::output was called
    metric_list    \* the lazy_static METRIC_LIST

vars == <<reqs, registry, invocations, metric_list>>

---------------------------------------------------------------------------
\* Strings

METRIC_LIST ==
    << "nvidia_fan_speed",
       "nvidia_temperature_gpu",
       "nvidia_clocks_gr",
       "nvidia_clocks_sm",
       "nvidia_clocks_mem",
       "nvidia_power_draw",
       "nvidia_utilization_gpu",
       "nvidia_utilization_memory",
       "nvidia_memory_total",
       "nvidia_memory_free",
       "nvidia_memory_used" >>

\* The characters str::trim removes, among the tokens of the model.
WhiteSpace == {" ", "\t", "\r", "\n"}

\* A byte that is not valid UTF-8.
InvalidByte == "<0xFF>"

RECURSIVE Flat(_)
Flat(s) == IF s = <<>> THEN "" ELSE Head(s) \o Flat(Tail(s))

RECURSIVE trim_start(_)
trim_start(s) ==
    IF s # <<>> /\ Head(s) \in WhiteSpace THEN trim_start(Tail(s)) ELSE s

RECURSIVE trim_end(_)
trim_end(s) ==
    IF s # <<>> /\ s[Len(s)] \in WhiteSpace
    THEN trim_end(SubSeq(s, 1, Len(s) - 1))
    ELSE s

trim(s) == trim_end(trim_start(s))

---------------------------------------------------------------------------
\* The CSV reader

\* The tokens of s before the first delim (all of s when there is none).
RECURSIVE UpTo(_, _)
UpTo(s, delim) ==
    IF s = <<>> \/ Head(s) = delim THEN <<>>
    ELSE <<Head(s)>> \o UpTo(Tail(s), delim)

\* The tokens of s after the first delim (none when there is no delim).
RECURSIVE After(_, _)
After(s, delim) ==
    IF s = <<>> THEN <<>>
    ELSE IF Head(s) = delim THEN Tail(s)
    ELSE After(Tail(s), delim)

\* The fields of one non-empty line: split at every ",".
RECURSIVE SplitFields(_)
SplitFields(line) ==
    IF "," \in {line[i] : i \in 1..Len(line)}
    THEN <<UpTo(line, ",")>> \o SplitFields(After(line, ","))
    ELSE <<line>>

\* The reader's input with the empty lines at its front skipped.
RECURSIVE SkipEmptyLines(_)
SkipEmptyLines(input) ==
    IF input # <<>> /\ Head(input) = "\n" THEN SkipEmptyLines(Tail(input))
    ELSE input

IsUtf8(fields) ==
    \A i \in 1..Len(fields) : \A j \in 1..Len(fields[i]) :
        fields[i][j] # InvalidByte

\* Reader over a byte slice; first_len = 0 until a record has been read.
from_reader(stdout) == [input |-> stdout, first_len |-> 0]

\* One step of rdr.records(): the item the iterator yields and the reader
\* after it.  kind "None" ends the iteration, "Err" is a csv::Error
\* (UnequalLengths or Utf8), "Ok" carries the record.
records_next(rdr) ==
    LET input  == SkipEmptyLines(rdr.input)
        fields == SplitFields(UpTo(input, "\n"))
        after  == [input |-> After(input, "\n"),
                   first_len |-> IF rdr.first_len = 0 THEN Len(fields)
                                 ELSE rdr.first_len]
    IN  IF input = <<>>
        THEN [kind |-> "None", record |-> <<>>, rdr |-> [rdr EXCEPT !.input = <<>>]]
        ELSE IF rdr.first_len # 0 /\ Len(fields) # rdr.first_len
        THEN [kind |-> "Err", record |-> <<>>, rdr |-> after]
        ELSE IF ~IsUtf8(fields)
        THEN [kind |-> "Err", record |-> <<>>, rdr |-> after]
        ELSE [kind |-> "Ok", record |-> fields, rdr |-> after]


---------------------------------------------------------------------------
\* The metric mapper and renderer (the body of the `for result` loop)

format_line(metric, index, name, value) ==
    metric \o "{gpu=\"" \o Flat(index) \o "\", name=\"" \o Flat(name)
           \o "\"} " \o Flat(value) \o "\n"

\* Faulty variant of the inner loop: the range starts at column 3, so the
\* first metric column is never read.
RECURSIVE metric_loop_from_3(_, _, _, _, _)
metric_loop_from_3(list, record, name, index, idx) ==
    LET i == 3 + idx
    IN  IF i >= Len(record) THEN [panicked |-> FALSE, lines |-> <<>>]
        ELSE IF idx >= Len(list) THEN [panicked |-> TRUE, lines |-> <<>>]
        ELSE LET rest == metric_loop_from_3(list, record, name, index, idx + 1)
             IN  [panicked |-> rest.panicked,
                  lines |-> <<format_line(list[idx + 1], index, name, record[i + 1])>>
                            \o rest.lines]

\* The inner loop from its idx-th iteration on, over record (a sequence of
\* fields, record[i + 1] being record.get(i)).  panicked: an unwrap met None.
RECURSIVE metric_loop(_, _, _, _, _)
metric_loop(list, record, name, index, idx) ==
    LET i == 2 + idx
    IN  IF i >= Len(record) THEN [panicked |-> FALSE, lines |-> <<>>]
        ELSE IF idx >= Len(list) THEN [panicked |-> TRUE, lines |-> <<>>]
        ELSE LET rest == metric_loop(list, record, name, index, idx + 1)
             IN  [panicked |-> rest.panicked,
                  lines |-> <<format_line(list[idx + 1], index, name, record[i + 1])>>
                            \o rest.lines]

\* Faulty variant of the outer loop's body: a record must carry every
\* queried column (record.get(2 + idx).unwrap() for each catalog entry).
record_lines_strict(list, record) ==
    IF Len(record) < 2 + Len(list) THEN [panicked |-> TRUE, lines |-> <<>>]
    ELSE metric_loop(list, record, record[1], trim(record[2]), 0)

\* One iteration of the outer loop on a record the reader yielded.
record_lines(list, record) ==
    IF Len(record) < 2 THEN [panicked |-> TRUE, lines |-> <<>>]
    ELSE metric_loop(list, record, record[1], trim(record[2]), 0)

---------------------------------------------------------------------------
\* The registry and its text encoding (prometheus::gather, TextEncoder)

encode(metric_families) ==
    << "# TYPE process_threads gauge\n",
       "process_threads " \o ToString(metric_families) \o "\n" >>

HomeBody ==
    "<html><head><title>Nvidia SMI exporter</title></head><body>"
    \o "<h1>Nvidia SMI exporter</h1><p><a href='/metrics'>Metrics</a></p>"
    \o "</body></html>"

---------------------------------------------------------------------------
\* Frames

NoOutput == [status |-> 0, stdout |-> <<>>]
NoResult == [kind |-> "None", value |-> <<>>, error |-> ""]
NoResponse == [status |-> 0, content_type |-> "", body |-> <<>>]

\* A request that has arrived and whose handler has not started.
Idle ==
    [pc |-> "idle", path |-> "", buffer |-> <<>>, output |-> NoOutput,
     rdr |-> from_reader(<<>>), nvidia_buffer |-> <<>>, result |-> NoResult,
     logged |-> FALSE, response |-> NoResponse]

Requests == 1..MaxConc

Init ==
    /\ reqs = [r \in Requests |-> Idle]
    /\ registry = 0
    /\ invocations = 0
    /\ metric_list = METRIC_LIST

---------------------------------------------------------------------------
\* Handlers

\* GET /: the whole handler.
handle_home(r) ==
    /\ reqs[r].pc = "idle"
    /\ reqs' = [reqs EXCEPT ![r] =
                  [@ EXCEPT !.pc = "done", !.path = "/",
                            !.response = [status |-> 200,
                                          content_type |-> "text/html",
                                          body |-> <<HomeBody>>]]]
    /\ UNCHANGED <<registry, invocations, metric_list>>

\* GET /metrics: gather the registry and encode it into buffer.
handle_metrics_gather(r) ==
    /\ reqs[r].pc = "idle"
    /\ reqs' = [reqs EXCEPT ![r] =
                  [@ EXCEPT !.pc = "command", !.path = "/metrics",
                            !.buffer = encode(registry)]]
    /\ UNCHANGED <<registry, invocations, metric_list>>

\* process_nvidia_smi, up to the reader: run the tool.  The tool either
\* cannot be started, or runs to an exit status and a standard output.
process_nvidia_smi_command(r, stdouts, statuses) ==
    /\ reqs[r].pc = "command"
    /\ invocations' = invocations + 1
    /\ \/ reqs' = [reqs EXCEPT ![r] =
                     [@ EXCEPT !.pc = "match",
                               !.result = [kind |-> "Err", value |-> <<>>,
                                           error |-> "Failed to execute command"]]]
       \/ \E stdout \in stdouts, status \in statuses :
            reqs' = [reqs EXCEPT ![r] =
                       [@ EXCEPT !.pc = "records",
                                 !.output = [status |-> status, stdout |-> stdout],
                                 !.rdr = from_reader(stdout),
                                 !.nvidia_buffer = <<>>]]
    /\ UNCHANGED <<registry, metric_list>>

\* Faulty variant of the loop: a row the reader rejects ends the loop
\* (break) instead of the function (?), and the lines so far are returned.
record_step_partial(f, list) ==
    LET item  == records_next(f.rdr)
        lines == record_lines(list, item.record)
    IN  IF item.kind \in {"None", "Err"}
        THEN [f EXCEPT !.pc = "match", !.rdr = item.rdr,
                       !.result = [kind |-> "Ok", value |-> f.nvidia_buffer,
                                   error |-> ""],
                       !.nvidia_buffer = <<>>]
        ELSE IF lines.panicked
        THEN [f EXCEPT !.pc = "panicked", !.rdr = item.rdr,
                       !.nvidia_buffer = <<>>]
        ELSE [f EXCEPT !.rdr = item.rdr,
                       !.nvidia_buffer = f.nvidia_buffer \o lines.lines]

\* The frame after one turn of `for result in rdr.records()`, or after the
\* loop's end and Ok(buffer).
record_step(f, list) ==
    LET item  == records_next(f.rdr)
        lines == record_lines(list, item.record)
    IN  IF item.kind = "None"
        THEN [f EXCEPT !.pc = "match", !.rdr = item.rdr,
                       !.result = [kind |-> "Ok", value |-> f.nvidia_buffer,
                                   error |-> ""],
                       !.nvidia_buffer = <<>>]
        ELSE IF item.kind = "Err"
        THEN [f EXCEPT !.pc = "match", !.rdr = item.rdr,
                       !.result = [kind |-> "Err", value |-> <<>>,
                                   error |-> "CSV error"],
                       !.nvidia_buffer = <<>>]
        ELSE IF lines.panicked
        THEN [f EXCEPT !.pc = "panicked", !.rdr = item.rdr,
                       !.nvidia_buffer = <<>>]
        ELSE [f EXCEPT !.rdr = item.rdr,
                       !.nvidia_buffer = f.nvidia_buffer \o lines.lines]

\* Faulty variant of the loop: buffer is one static String, so the lines of
\* a record reach every scrape that is in its loop.
process_nvidia_smi_record_shared(r) ==
    LET step  == record_step(reqs[r], metric_list)
        lines == IF step.pc = "records"
                 THEN SubSeq(step.nvidia_buffer, Len(reqs[r].nvidia_buffer) + 1,
                             Len(step.nvidia_buffer))
                 ELSE <<>>
    IN  /\ reqs[r].pc = "records"
        /\ reqs' = [q \in Requests |->
                      IF q = r THEN step
                      ELSE IF reqs[q].pc = "records"
                      THEN [reqs[q] EXCEPT !.nvidia_buffer = @ \o lines]
                      ELSE reqs[q]]
        /\ UNCHANGED <<registry, invocations, metric_list>>

\* One turn of the loop of process_nvidia_smi, or its end.
process_nvidia_smi_record(r) ==
    /\ reqs[r].pc = "records"
    /\ reqs' = [reqs EXCEPT ![r] = record_step(reqs[r], metric_list)]
    /\ UNCHANGED <<registry, invocations, metric_list>>

\* Faulty variant of response_body: the error's text is written to the body.
response_body_with_error(buffer, result) ==
    IF result.kind = "Ok" THEN buffer \o result.value
    ELSE buffer \o <<"# " \o result.error \o "\n">>

\* The body handle_metrics sends for a result of process_nvidia_smi.
response_body(buffer, result) ==
    IF result.kind = "Ok" THEN buffer \o result.value ELSE buffer

\* Faulty variant of handle_metrics: a failed scrape runs the tool again.
handle_metrics_respond_retry(r) ==
    /\ reqs[r].pc = "match"
    /\ reqs' = [reqs EXCEPT ![r] =
                  IF reqs[r].result.kind = "Err"
                  THEN [@ EXCEPT !.pc = "command", !.logged = TRUE,
                                 !.result = NoResult]
                  ELSE [@ EXCEPT !.pc = "done",
                                 !.response = [status |-> 200,
                                               content_type |-> "text/plain",
                                               body |-> reqs[r].buffer
                                                          \o reqs[r].result.value]]]
    /\ UNCHANGED <<registry, invocations, metric_list>>

\* handle_metrics from its match to the response.
handle_metrics_respond(r) ==
    /\ reqs[r].pc = "match"
    /\ reqs' = [reqs EXCEPT ![r] =
                  [@ EXCEPT !.pc = "done",
                            !.logged = (reqs[r].result.kind = "Err"),
                            !.response = [status |-> 200,
                                          content_type |-> "text/plain",
                                          body |-> response_body(reqs[r].buffer,
                                                                 reqs[r].result)]]]
    /\ UNCHANGED <<registry, invocations, metric_list>>

\* The metrics library's collectors change the registry between gathers.
registry_change ==
    /\ registry < MaxRegistry
    /\ registry' = registry + 1
    /\ UNCHANGED <<reqs, invocations, metric_list>>

---------------------------------------------------------------------------
\* What the tool prints for --format=csv,noheader,nounits: one line per
\* GPU, the columns separated by a comma and a space.

T4 ==
    << <<"NVIDIA", " ", "Tesla", " ", "T4">>, <<"0">>, <<"30">>, <<"45">>,
       <<"300">>, <<"1500">>, <<"5000">>, <<"70.5">>, <<"25">>, <<"10">>,
       <<"16384">>, <<"12000">>, <<"4384">> >>

A100 ==
    << <<"NVIDIA", " ", "A100">>, <<"1">>, <<"35">>, <<"51">>,
       <<"210">>, <<"1410">>, <<"1215">>, <<"60.2">>, <<"7">>, <<"3">>,
       <<"40960">>, <<"40000">>, <<"960">> >>

\* A GPU whose name holds a byte that is not UTF-8.
Garbled == [A100 EXCEPT ![1] = <<"NVIDIA", " ", InvalidByte>>]

\* T4 with n more columns than the query asks for.
Wide(n) == T4 \o [i \in 1..n |-> <<"P", ToString(i)>>]

RECURSIVE csv_line(_)
csv_line(row) ==
    IF row = <<>> THEN <<"\n">>
    ELSE IF Len(row) = 1 THEN row[1] \o <<"\n">>
    ELSE row[1] \o <<",", " ">> \o csv_line(Tail(row))

RECURSIVE csv(_)
csv(rows) == IF rows = <<>> THEN <<>> ELSE csv_line(Head(rows)) \o csv(Tail(rows))

SampleRows ==
    {SubSeq(T4, 1, n) : n \in 0..Len(T4)}
        \cup {Wide(n) : n \in 1..MaxExtra} \cup {A100, Garbled}

ToolOutputs == {csv(rows) : rows \in UNION {[1..n -> SampleRows] : n \in 0..MaxRows}}

ExitStatuses == {0, 1}

\* The outputs of the concurrent specification: two healthy ones, one the
\* reader rejects in its second row, one whose only row has a single field.
ConcOutputs ==
    {csv(<<T4>>), csv(<<A100, T4>>), csv(<<A100, SubSeq(T4, 1, 7)>>),
     csv(<<SubSeq(T4, 1, 1)>>)}

\* The outputs of a single line.
RowOutputs == {csv(<<row>>) : row \in SampleRows}

---------------------------------------------------------------------------
\* Specifications

\* The request of the sequential specification.
Scrape == {1}

\* One request at a time, the tool's behaviour unconstrained.
Next ==
    \E r \in Scrape :
        \/ handle_home(r)
        \/ handle_metrics_gather(r)
        \/ process_nvidia_smi_command(r, ToolOutputs, ExitStatuses)
        \/ process_nvidia_smi_record(r)
        \/ handle_metrics_respond(r)

Spec == Init /\ [][Next]_vars

\* Requests served in parallel by the executor's threads.
NextC ==
    \E r \in Requests :
        \/ handle_home(r)
        \/ handle_metrics_gather(r)
        \/ process_nvidia_smi_command(r, ConcOutputs, {0})
        \/ process_nvidia_smi_record(r)
        \/ handle_metrics_respond(r)

SpecC == Init /\ [][NextC]_vars

\* One request while the metrics library changes the registry.
NextR ==
    \/ registry_change
    \/ \E r \in Scrape :
          \/ handle_home(r)
          \/ handle_metrics_gather(r)
          \/ process_nvidia_smi_command(r, RowOutputs, ExitStatuses)
          \/ process_nvidia_smi_record(r)
          \/ handle_metrics_respond(r)

SpecR == Init /\ [][NextR]_vars

---------------------------------------------------------------------------
\* Vocabulary of the properties

Frame(r) == reqs[r]

SpawnError == "Failed to execute command"

\* The tool was started: process_nvidia_smi got past Command::output.
Spawned(f) ==
    \/ f.pc \in {"records", "panicked"}
    \/ f.pc \in {"match", "done"} /\ f.path = "/metrics" /\ f.result.error # SpawnError

\* The handler has the result of process_nvidia_smi in hand.
Returned(f) == f.pc \in {"match", "done"} /\ f.path = "/metrics"

\* The rows of a standard output: its non-empty lines, each as its fields.
RECURSIVE RowsOf(_)
RowsOf(stdout) ==
    LET input == SkipEmptyLines(stdout)
    IN  IF input = <<>> THEN <<>>
        ELSE <<SplitFields(UpTo(input, "\n"))>> \o RowsOf(After(input, "\n"))

Columns == Len(METRIC_LIST) + 2

\* The exposition line of metric number j (from 1) of a row.
LineOf(row, j) ==
    METRIC_LIST[j] \o "{gpu=\"" \o Flat(trim(row[2])) \o "\", name=\""
        \o Flat(row[1]) \o "\"} " \o Flat(row[j + 2]) \o "\n"

\* Rows of k metric fields each, rendered row by row in catalog order.
Rendered(rows, k) ==
    [n \in 1..(Len(rows) * k) |->
        LineOf(rows[((n - 1) \div k) + 1], ((n - 1) % k) + 1)]

\* Every row has exactly n fields, all of them UTF-8.
Uniform(rows, n) == \A i \in 1..Len(rows) : Len(rows[i]) = n /\ IsUtf8(rows[i])

\* The reader rejects some row: its field count is not the first row's, or
\* it is not UTF-8.
Rejected(rows) ==
    \E i \in 1..Len(rows) : Len(rows[i]) # Len(rows[1]) \/ ~IsUtf8(rows[i])

RegistryOnly(f) ==
    /\ f.response.status = 200
    /\ f.response.content_type = "text/plain"
    /\ Flat(f.response.body) = Flat(f.buffer)
    /\ \E v \in 0..MaxRegistry : f.buffer = encode(v)

---------------------------------------------------------------------------
\* Properties

\* C1: when the tool cannot be started, the /metrics request ends with
\* status 200 and a body byte-identical to the registry-only rendering.
C1_SpawnFailureRegistryOnly ==
    \A r \in Scrape :
        LET f == Frame(r)
        IN  (f.path = "/metrics" /\ f.result.error = SpawnError) =>
                /\ f.pc \in {"match", "done"}
                /\ f.result.kind = "Err"
                /\ f.pc = "done" => RegistryOnly(f)

C1_Witness ==
    \E r \in Scrape :
        /\ Frame(r).pc = "done"
        /\ Frame(r).result.error = SpawnError
        /\ Frame(r).response.status = 200
        /\ Frame(r).buffer = encode(1)

\* C2: a row with fewer than 2 fields makes the pipeline report an error
\* value, and the request returns 200 with only the registry metrics; the
\* handler ends in no other way.
C2_ShortRowIsMappingError ==
    \A r \in Scrape :
        LET f    == Frame(r)
            rows == RowsOf(f.output.stdout)
        IN  (Spawned(f) /\ f.pc # "records"
                /\ \E i \in 1..Len(rows) : Len(rows[i]) < 2) =>
                /\ f.pc # "panicked"
                /\ f.result.kind = "Err"
                /\ f.pc = "done" => RegistryOnly(f)

\* C3: N well-formed rows of 13 fields give exactly N x 11 lines, in row
\* order and, within a row, in catalog order; line j of row r carries
\* METRIC_LIST[j] and field 2 + j of row r.
C3_ThirteenColumns ==
    \A r \in Scrape :
        LET f    == Frame(r)
            rows == RowsOf(f.output.stdout)
        IN  (Spawned(f) /\ Uniform(rows, Columns)) =>
                /\ f.pc # "panicked"
                /\ Returned(f) =>
                      /\ f.result.kind = "Ok"
                      /\ Len(f.result.value) = Len(rows) * Len(METRIC_LIST)
                      /\ f.result.value = Rendered(rows, Len(METRIC_LIST))
                /\ f.pc = "done" =>
                      f.response.body = f.buffer \o Rendered(rows, Len(METRIC_LIST))

C3_Witness ==
    \E r \in Scrape :
        LET f    == Frame(r)
            rows == RowsOf(f.output.stdout)
        IN  /\ f.pc = "done"
            /\ Len(rows) = 2 /\ Uniform(rows, Columns) /\ rows[1] # rows[2]
            /\ Len(f.response.body) = Len(f.buffer) + 2 * Len(METRIC_LIST)

\* C4: the row "NVIDIA Tesla T4, 0, 30, 45, ..." yields as its first two
\* lines the fan speed and temperature lines with exactly one space between
\* the closing brace and the value.
C4_TeslaT4Lines ==
    \A r \in Scrape :
        LET f == Frame(r)
            n == Len(f.buffer)
        IN  (f.pc = "done" /\ Flat(f.output.stdout) =
                "NVIDIA Tesla T4, 0, 30, 45, 300, 1500, 5000, 70.5, 25, 10, 16384, 12000, 4384\n") =>
                /\ Len(f.response.body) >= n + 2
                /\ f.response.body[n + 1] =
                      "nvidia_fan_speed{gpu=\"0\", name=\"NVIDIA Tesla T4\"} 30\n"
                /\ f.response.body[n + 2] =
                      "nvidia_temperature_gpu{gpu=\"0\", name=\"NVIDIA Tesla T4\"} 45\n"

\* The lines of rows of any widths, row by row.
RECURSIVE RenderedRows(_)
RenderedRows(rows) ==
    IF rows = <<>> THEN <<>>
    ELSE [j \in 1..(Len(Head(rows)) - 2) |-> LineOf(Head(rows), j)]
            \o RenderedRows(Tail(rows))

\* Every row has a name, an index and at most the queried metric columns,
\* all UTF-8.
Mappable(rows) ==
    \A i \in 1..Len(rows) :
        Len(rows[i]) >= 2 /\ Len(rows[i]) <= Columns /\ IsUtf8(rows[i])

C6_ExtraFieldsIgnored ==
    \A r \in Scrape :
        LET f    == Frame(r)
            rows == RowsOf(f.output.stdout)
        IN  (Spawned(f) /\ f.pc # "records" /\ rows # <<>>
                /\ Len(rows[1]) > Columns /\ Uniform(rows, Len(rows[1]))) =>
                /\ f.pc # "panicked"
                /\ f.result.kind = "Ok"
                /\ f.result.value = Rendered(rows, Len(METRIC_LIST))

\* C7: when the tool exits with a non-zero status the response contains no
\* GPU lines, whatever the tool wrote to its standard output.
C7_NonZeroExitIsError ==
    \A r \in Scrape :
        LET f == Frame(r)
        IN  (f.pc = "done" /\ Spawned(f) /\ f.output.status # 0) =>
                f.response.body = f.buffer

\* C8: every /metrics request that has reached the tool has invoked it
\* exactly once, whether the invocation succeeded or failed, and GET /
\* invokes nothing: the invocations are as many as those requests.
C8_OneInvocationPerScrape ==
    invocations =
        Cardinality({r \in Requests :
                        Frame(r).path = "/metrics" /\ Frame(r).pc # "command"})

C8_Witness ==
    \E r1, r2 \in Requests :
        /\ Frame(r1).pc = "done" /\ Frame(r1).result.error = SpawnError
        /\ Frame(r2).pc = "done" /\ Frame(r2).result.kind = "Ok"
        /\ invocations = 2

\* C9: when the reader rejects any row of the output, the response holds
\* no GPU line at all, also none for the valid rows before that row: it is
\* the registry-only rendering with status 200.
C9_AllOrNothing ==
    \A r \in Scrape :
        LET f    == Frame(r)
            rows == RowsOf(f.output.stdout)
        IN  (Spawned(f) /\ Returned(f) /\ Rejected(rows)) =>
                /\ f.result.kind = "Err"
                /\ f.result.value = <<>>
                /\ f.pc = "done" => RegistryOnly(f) /\ f.logged

C9_Witness ==
    \E r \in Scrape :
        LET f    == Frame(r)
            rows == RowsOf(f.output.stdout)
        IN  /\ f.pc = "done"
            /\ Len(rows) = 2 /\ Uniform(<<rows[1]>>, Columns) /\ Rejected(rows)
            /\ f.response.body = f.buffer

\* C10: with requests in flight together and one after another, the GPU
\* lines of a request come from its own tool invocation alone, whatever the
\* others do or did, and the catalog never changes.
C10_OwnInvocationOnly ==
    /\ metric_list = METRIC_LIST
    /\ \A r \in Requests :
          LET f    == Frame(r)
              rows == RowsOf(f.output.stdout)
              read == Len(rows) - Len(RowsOf(f.rdr.input))
          IN  /\ f.pc = "records" =>
                    f.nvidia_buffer = RenderedRows(SubSeq(rows, 1, read))
              /\ Returned(f) =>
                    /\ f.result.kind = "Ok" <=> (Spawned(f) /\ ~Rejected(rows))
                    /\ f.result.value =
                          IF f.result.kind = "Ok" THEN RenderedRows(rows) ELSE <<>>
              /\ (f.pc = "done" /\ f.path = "/metrics") =>
                    f.response.body = f.buffer \o f.result.value

C10_Witness ==
    \E r1, r2 \in Requests :
        /\ Frame(r1).pc = "records" /\ Frame(r2).pc = "records"
        /\ Frame(r1).output.stdout # Frame(r2).output.stdout
        /\ Frame(r1).nvidia_buffer # <<>> /\ Frame(r2).nvidia_buffer # <<>>
=============================================================================
